---- MODULE Spec2Model ----
(***************************************************************************)
(* Shape-level model of the residual U-net generator (models/res_unet.py)  *)
(* and of the model selection in main.py.                                  *)
(*                                                                         *)
(* A tensor is represented by its shape [n, c, h, w].  A layer is an       *)
(* operator from shapes to shapes that yields a failed result where the    *)
(* layer raises.  Modules built by ResUnet.__init__ are records holding    *)
(* the constructor arguments.  Python indices are kept 0-based (level,     *)
(* index); a Python list l is a sequence with l[k] written l[k + 1].       *)
(* The dropout rate is kept in percent (0.5 is 50).                        *)
(***************************************************************************)
EXTENDS Integers, Sequences, FiniteSets

\* ------------------------------------------------------------------ bounds
\* longest channel_mults drawn together with arbitrary input shapes
MaxLen == 2
\* longest channel_mults drawn with inputs whose H, W are multiples of 2^len
MaxDepth == 5
\* largest channel multiplier
MaxMult == 2
\* largest height / width of an arbitrary input
MaxHW == 4
\* largest batch size
MaxN == 2

\* --------------------------------------------------------- program constants
BaseChannels == 64
DefaultChannelMults == <<1, 2, 4, 8, 8, 8, 8, 8>>
DefaultDropout == 50
DefaultInChannels == 3
DefaultOutChannels == 3
ExampleBatch == 2
ExampleSize == 256

\* ------------------------------------------------------------------ tensors
Shape(n, c, h, w) == [ok |-> TRUE, n |-> n, c |-> c, h |-> h, w |-> w, err |-> "none"]

Fail(e) == [ok |-> FALSE, n |-> 0, c |-> 0, h |-> 0, w |-> 0, err |-> e]

\* nn.Conv2d applied to x: out = floor((size + 2*padding - kernel) / stride) + 1.
\* The convolution rejects a weight without output channels, an input whose
\* channel count is not in_channels, and a kernel larger than the padded input.
Conv2d(x, in_channels, out_channels, kernel_size, stride, padding) ==
    IF ~x.ok THEN x
    ELSE IF out_channels < 1 THEN Fail("weight")
    ELSE IF x.c # in_channels THEN Fail("channels")
    ELSE IF x.h + 2 * padding < kernel_size \/ x.w + 2 * padding < kernel_size
         THEN Fail("kernel")
    ELSE Shape(x.n, out_channels,
               ((x.h + 2 * padding - kernel_size) \div stride) + 1,
               ((x.w + 2 * padding - kernel_size) \div stride) + 1)

\* nn.ConvTranspose2d applied to x: out = (size - 1)*stride - 2*padding + kernel.
ConvTranspose2d(x, in_channels, out_channels, kernel_size, stride, padding) ==
    IF ~x.ok THEN x
    ELSE IF x.c # in_channels THEN Fail("channels")
    ELSE Shape(x.n, out_channels,
               (x.h - 1) * stride - 2 * padding + kernel_size,
               (x.w - 1) * stride - 2 * padding + kernel_size)

\* nn.BatchNorm2d applied to x: keeps the shape; in training mode it raises
\* when there is a single value per channel (n * h * w = 1).
BatchNorm2d(x, num_features, training) ==
    IF ~x.ok THEN x
    ELSE IF x.c # num_features THEN Fail("channels")
    ELSE IF training /\ x.n * x.h * x.w = 1 THEN Fail("batchnorm")
    ELSE x

\* nn.LeakyReLU, nn.ReLU, nn.Dropout2d, nn.Identity, nn.Tanh: elementwise,
\* the shape is kept.
Elementwise(x) == x

BroadcastOK(a, b) == a = b \/ a = 1 \/ b = 1

BroadcastDim(a, b) == IF a = 1 THEN b ELSE a

\* a + b on tensors, with broadcasting of dimensions of size 1
Add(a, b) ==
    IF ~a.ok THEN a
    ELSE IF ~b.ok THEN b
    ELSE IF BroadcastOK(a.n, b.n) /\ BroadcastOK(a.c, b.c)
            /\ BroadcastOK(a.h, b.h) /\ BroadcastOK(a.w, b.w)
         THEN Shape(BroadcastDim(a.n, b.n), BroadcastDim(a.c, b.c),
                    BroadcastDim(a.h, b.h), BroadcastDim(a.w, b.w))
    ELSE Fail("add")

\* torch.cat([a, b], dim=1): every dimension but the channels must agree
Cat(a, b) ==
    IF ~a.ok THEN a
    ELSE IF ~b.ok THEN b
    ELSE IF a.n = b.n /\ a.h = b.h /\ a.w = b.w
         THEN Shape(a.n, a.c + b.c, a.h, a.w)
    ELSE Fail("cat")

\* ------------------------------------------------------------ EncoderBlock
EncoderConvBlock(x, in_channels, out_channels, norm, training) ==
    LET a1 == Elementwise(x)
        c1 == Conv2d(a1, in_channels, out_channels, 4, 2, 1)
        n1 == BatchNorm2d(c1, out_channels, training)
        a2 == Elementwise(n1)
        c2 == Conv2d(a2, out_channels, out_channels, 3, 1, 1)
    IN  IF norm THEN BatchNorm2d(c2, out_channels, training) ELSE Elementwise(c2)

EncoderConvSkip(x, in_channels, out_channels) ==
    Conv2d(x, in_channels, out_channels, 1, 2, 0)

EncoderBlockForward(x, in_channels, out_channels, norm, training) ==
    Add(EncoderConvBlock(x, in_channels, out_channels, norm, training),
        EncoderConvSkip(x, in_channels, out_channels))

\* ------------------------------------------------------------ DecoderBlock
DecoderConvBlock(x, in_channels, out_channels, dropout, training) ==
    LET a1 == Elementwise(x)
        c1 == ConvTranspose2d(a1, in_channels, out_channels, 4, 2, 1)
        n1 == BatchNorm2d(c1, out_channels, training)
        a2 == Elementwise(n1)
        c2 == Conv2d(a2, out_channels, out_channels, 3, 1, 1)
        n2 == BatchNorm2d(c2, out_channels, training)
    IN  IF dropout > 0 THEN Elementwise(n2) ELSE Elementwise(n2)

\* mutant: the shortcut upsamples with a 4x4 kernel and no padding
DecoderConvSkip_Kernel4(x, in_channels, out_channels) ==
    ConvTranspose2d(x, in_channels, out_channels, 4, 2, 0)

DecoderConvSkip(x, in_channels, out_channels) ==
    ConvTranspose2d(x, in_channels, out_channels, 2, 2, 0)

DecoderBlockForward(x, in_channels, out_channels, dropout, training) ==
    Add(DecoderConvBlock(x, in_channels, out_channels, dropout, training),
        DecoderConvSkip(x, in_channels, out_channels))

\* ------------------------------------------------------------------- state
VARIABLES
    \* ResUnet: constructor arguments, the input tensor and the module mode
    channel_mults, in_channels, out_channels, dropout, x, training,
    \* ResUnet.__init__: position, loop variable, the two module lists
    pc, level, encoders, decoders,
    \* ResUnet.forward: activation, feature-map stack, loop index, result
    h, feats, index, out,
    \* what was raised and where
    err, raised_in,
    \* history: pops of line 232, the encoder stage whose output each decoder
    \* stage concatenated (-1: none), the channel count each decoder stage
    \* received.  A stored feature map is [stage, t]: the encoder stage that
    \* produced it and the tensor.
    discarded, skips, received,
    \* a single EncoderBlock / DecoderBlock call
    bpc, block, bx, btraining, conv_block, conv_skip, bout,
    \* main
    mpc, hparams, seeded, model, data_module, ema_callback, trainer, fitted, merr

unetVars == <<channel_mults, in_channels, out_channels, dropout, x, training,
              pc, level, encoders, decoders, h, feats, index, out,
              err, raised_in, discarded, skips, received>>

blockVars == <<bpc, block, bx, btraining, conv_block, conv_skip, bout>>

mainVars == <<mpc, hparams, seeded, model, data_module, ema_callback, trainer,
              fitted, merr>>

vars == <<unetVars, blockVars, mainVars>>

NoTensor == Fail("unset")

Range(s) == {s[k] : k \in 1..Len(s)}

SeqsUpTo(S, n) == UNION {[1..k -> S] : k \in 0..n}

\* max(channel_mults)
Max(s) == CHOOSE m \in Range(s) : \A k \in Range(s) : k <= m

\* --------------------------------------------------------------- the inputs
MultVals == (-1)..MaxMult

\* grayscale input, colour output: in_channels differs from out_channels
ChannelPairs == {<<1, DefaultOutChannels>>}

\* any short channel_mults with any small input, default dropout
ArbitraryInputs ==
    {[channel_mults |-> cm, in_channels |-> cp[1], out_channels |-> cp[2],
      dropout |-> DefaultDropout, training |-> t,
      x |-> Shape(n, cp[1], hh, ww)] :
        cm \in SeqsUpTo(MultVals, MaxLen), cp \in ChannelPairs, t \in BOOLEAN,
        n \in 1..MaxN, hh \in 1..MaxHW, ww \in 1..MaxHW}

\* positive channel_mults up to MaxDepth with inputs of 2^len by 2 * 2^len
DeepInputs ==
    {[channel_mults |-> cm, in_channels |-> DefaultInChannels,
      out_channels |-> DefaultOutChannels,
      dropout |-> DefaultDropout, training |-> t,
      x |-> Shape(n, DefaultInChannels, 2^Len(cm), 2 * 2^Len(cm))] :
        cm \in SeqsUpTo(1..MaxMult, MaxDepth) \ {<<>>},
        t \in BOOLEAN, n \in 1..MaxN}

\* ResUnetGAN() with its defaults and its example_input_array, with and
\* without dropout
DefaultInputs ==
    {[channel_mults |-> DefaultChannelMults, in_channels |-> DefaultInChannels,
      out_channels |-> DefaultOutChannels,
      dropout |-> d, training |-> t,
      x |-> Shape(ExampleBatch, DefaultInChannels, ExampleSize, ExampleSize)] :
        d \in {0, DefaultDropout}, t \in BOOLEAN}

Inputs == ArbitraryInputs \cup DeepInputs \cup DefaultInputs

UnetIdle ==
    /\ channel_mults = <<>> /\ in_channels = 0 /\ out_channels = 0
    /\ dropout = 0 /\ x = NoTensor /\ training = TRUE
    /\ pc = "idle" /\ level = 0 /\ encoders = <<>> /\ decoders = <<>>
    /\ h = NoTensor /\ feats = <<>> /\ index = 0 /\ out = NoTensor
    /\ err = "none" /\ raised_in = "none"
    /\ discarded = 0 /\ skips = <<>> /\ received = <<>>

BlockIdle ==
    /\ bpc = "idle" /\ block = [kind |-> "none"] /\ bx = NoTensor
    /\ btraining = TRUE /\ conv_block = NoTensor /\ conv_skip = NoTensor
    /\ bout = NoTensor

MainIdle ==
    /\ mpc = "idle" /\ hparams = [model |-> "none"] /\ seeded = FALSE
    /\ model = "None" /\ data_module = FALSE /\ ema_callback = FALSE
    /\ trainer = FALSE /\ fitted = FALSE /\ merr = "none"

\* ---------------------------------------------------------- ResUnet.__init__
Init ==
    /\ \E i \in Inputs :
         /\ channel_mults = i.channel_mults
         /\ in_channels = i.in_channels
         /\ out_channels = i.out_channels
         /\ dropout = i.dropout
         /\ training = i.training
         /\ x = i.x
    /\ pc = "start" /\ level = 0 /\ encoders = <<>> /\ decoders = <<>>
    /\ h = NoTensor /\ feats = <<>> /\ index = 0 /\ out = NoTensor
    /\ err = "none" /\ raised_in = "none"
    /\ discarded = 0 /\ skips = <<>> /\ received = <<>>
    /\ BlockIdle /\ MainIdle

Raise(e, where) ==
    /\ pc' = "raised"
    /\ err' = e
    /\ raised_in' = where

\* mutant: the comparison is off by one, no level has norm False
BlockNorm_OffByOne(lvl, cm) == lvl # Len(cm)

\* line 181: norm=level != len(channel_mults) - 1
BlockNorm(lvl, cm) == lvl # Len(cm) - 1

\* mutant: the boundary admits one level more
BlockDropout_Four(mult, lvl, cm, rate) ==
    IF mult = Max(cm) /\ lvl > Len(cm) - 6 THEN rate ELSE 0

\* lines 200-203: the dropout rate handed to the DecoderBlock of a level
BlockDropout(mult, lvl, cm, rate) ==
    IF mult = Max(cm) /\ lvl > Len(cm) - 5 THEN rate ELSE 0

\* mutant: the concatenated skip connection is not accounted for
NextInChannels_NoDouble(channels) == channels

\* line 207: in_channels = channels * 2
NextInChannels(channels) == channels * 2

\* lines 163-173: the initial strided convolution
InitEncoders ==
    /\ pc = "start"
    /\ IF Len(channel_mults) = 0
       THEN /\ Raise("IndexError", "__init__")
            /\ UNCHANGED <<encoders, in_channels, level>>
       ELSE IF channel_mults[1] * BaseChannels < 0
       THEN /\ Raise("negative dimension", "__init__")
            /\ UNCHANGED <<encoders, in_channels, level>>
       ELSE /\ encoders' = <<[kind |-> "Conv2d", in_channels |-> in_channels,
                              out_channels |-> channel_mults[1] * BaseChannels,
                              norm |-> FALSE]>>
            /\ in_channels' = channel_mults[1] * BaseChannels
            /\ level' = 1
            /\ pc' = "encoders"
            /\ UNCHANGED <<err, raised_in>>
    /\ UNCHANGED <<channel_mults, out_channels, dropout, x, training, decoders,
                   h, feats, index, out, discarded, skips, received>>
    /\ UNCHANGED <<blockVars, mainVars>>

\* lines 174-185: one iteration of the encoder loop
EncoderLoop ==
    /\ pc = "encoders"
    /\ level <= Len(channel_mults) - 1
    /\ LET mult == channel_mults[level + 1]
           channels == mult * BaseChannels
       IN  IF channels < 0
           THEN /\ Raise("negative dimension", "__init__")
                /\ UNCHANGED <<encoders, in_channels, level>>
           ELSE /\ encoders' = Append(encoders,
                       [kind |-> "EncoderBlock", in_channels |-> in_channels,
                        out_channels |-> channels,
                        norm |-> BlockNorm(level, channel_mults)])
                /\ in_channels' = channels
                /\ level' = level + 1
                /\ UNCHANGED <<pc, err, raised_in>>
    /\ UNCHANGED <<channel_mults, out_channels, dropout, x, training, decoders,
                   h, feats, index, out, discarded, skips, received>>
    /\ UNCHANGED <<blockVars, mainVars>>

\* lines 187-191: the encoder list is complete, the decoder loop starts at
\* the last level of channel_mults[:-1]
EncodersDone ==
    /\ pc = "encoders"
    /\ level > Len(channel_mults) - 1
    /\ pc' = "decoders"
    /\ level' = Len(channel_mults) - 2
    /\ UNCHANGED <<channel_mults, in_channels, out_channels, dropout, x, training,
                   encoders, decoders, h, feats, index, out, err, raised_in,
                   discarded, skips, received>>
    /\ UNCHANGED <<blockVars, mainVars>>

\* lines 191-207: one iteration of the decoder loop (levels in reverse)
DecoderLoop ==
    /\ pc = "decoders"
    /\ level >= 0
    /\ LET mult == channel_mults[level + 1]
           channels == mult * BaseChannels
       IN  /\ decoders' = Append(decoders,
                  [kind |-> "DecoderBlock", in_channels |-> in_channels,
                   out_channels |-> channels,
                   dropout |-> BlockDropout(mult, level, channel_mults, dropout)])
           /\ in_channels' = NextInChannels(channels)
    /\ level' = level - 1
    /\ UNCHANGED <<channel_mults, out_channels, dropout, x, training, pc,
                   encoders, h, feats, index, out, err, raised_in,
                   discarded, skips, received>>
    /\ UNCHANGED <<blockVars, mainVars>>

\* lines 209-220: the final transposed convolution
FinalDecoder ==
    /\ pc = "decoders"
    /\ level < 0
    /\ decoders' = Append(decoders,
           [kind |-> "ConvTranspose2d", in_channels |-> in_channels,
            out_channels |-> out_channels, dropout |-> 0])
    /\ pc' = "built"
    /\ UNCHANGED <<channel_mults, in_channels, out_channels, dropout, x, training,
                   level, encoders, h, feats, index, out, err, raised_in,
                   discarded, skips, received>>
    /\ UNCHANGED <<blockVars, mainVars>>

\* ----------------------------------------------------------- ResUnet.forward
\* encoder(h) for a member of self.encoders
ApplyEncoder(e, t, tr) ==
    IF e.kind = "Conv2d"
    THEN Conv2d(t, e.in_channels, e.out_channels, 4, 2, 1)
    ELSE EncoderBlockForward(t, e.in_channels, e.out_channels, e.norm, tr)

\* decoder(h) for a member of self.decoders
ApplyDecoder(d, t, tr) ==
    IF d.kind = "ConvTranspose2d"
    THEN ConvTranspose2d(t, d.in_channels, d.out_channels, 4, 2, 1)
    ELSE DecoderBlockForward(t, d.in_channels, d.out_channels, d.dropout, tr)

\* mutant: the first decoder stage concatenates too
NeedsSkip_Always(i) == TRUE

\* line 235: every decoder stage but the first concatenates
NeedsSkip(i) == i # 0

\* mutant: the feature maps are taken from the front
SkipPosition_First(fs) == 1

\* line 236: feats.pop() takes the last stored feature map
SkipPosition(fs) == Len(fs)

\* list.pop(): the list without the element at (1-based) position k
Without(fs, k) == SubSeq(fs, 1, k - 1) \o SubSeq(fs, k + 1, Len(fs))

\* lines 222-225: the cast to float32, the empty stack
ForwardStart ==
    /\ pc = "built"
    /\ h' = Elementwise(x)
    /\ feats' = <<>>
    /\ index' = 0
    /\ pc' = "encode"
    /\ UNCHANGED <<channel_mults, in_channels, out_channels, dropout, x, training,
                   level, encoders, decoders, out, err, raised_in,
                   discarded, skips, received>>
    /\ UNCHANGED <<blockVars, mainVars>>

\* lines 226-228: one encoder stage, its output pushed
EncoderPass ==
    /\ pc = "encode"
    /\ index < Len(encoders)
    /\ LET r == ApplyEncoder(encoders[index + 1], h, training)
       IN  IF r.ok
           THEN /\ h' = r
                /\ feats' = Append(feats, [stage |-> index, t |-> r])
                /\ index' = index + 1
                /\ UNCHANGED <<pc, err, raised_in>>
           ELSE /\ Raise(r.err, "encoder")
                /\ UNCHANGED <<h, feats, index>>
    /\ UNCHANGED <<channel_mults, in_channels, out_channels, dropout, x, training,
                   level, encoders, decoders, out, discarded, skips, received>>
    /\ UNCHANGED <<blockVars, mainVars>>

\* mutant: the bottleneck is left on the stack
PopBottleneck_NoPop ==
    /\ pc = "encode"
    /\ index = Len(encoders)
    /\ index' = 0
    /\ pc' = "decode"
    /\ UNCHANGED <<channel_mults, in_channels, out_channels, dropout, x, training,
                   level, encoders, decoders, h, feats, out, err, raised_in,
                   discarded, skips, received>>
    /\ UNCHANGED <<blockVars, mainVars>>

\* lines 230-232: the last feature map is removed
PopBottleneck ==
    /\ pc = "encode"
    /\ index = Len(encoders)
    /\ IF feats = <<>>
       THEN /\ Raise("pop from empty list", "pop")
            /\ UNCHANGED <<feats, discarded, index>>
       ELSE /\ feats' = Without(feats, Len(feats))
            /\ discarded' = discarded + 1
            /\ index' = 0
            /\ pc' = "decode"
            /\ UNCHANGED <<err, raised_in>>
    /\ UNCHANGED <<channel_mults, in_channels, out_channels, dropout, x, training,
                   level, encoders, decoders, h, out, skips, received>>
    /\ UNCHANGED <<blockVars, mainVars>>

\* lines 234-238: one decoder stage, after the concatenation with the popped
\* feature map for every stage but the first
DecoderPass ==
    /\ pc = "decode"
    /\ index < Len(decoders)
    /\ IF NeedsSkip(index) /\ feats = <<>>
       THEN /\ Raise("pop from empty list", "cat")
            /\ UNCHANGED <<h, feats, index, skips, received>>
       ELSE LET popped == NeedsSkip(index)
                k == SkipPosition(feats)
                hc == IF popped THEN Cat(h, feats[k].t) ELSE h
                r == ApplyDecoder(decoders[index + 1], hc, training)
            IN  /\ feats' = IF popped THEN Without(feats, k) ELSE feats
                /\ skips' = Append(skips, IF popped THEN feats[k].stage ELSE -1)
                /\ IF ~hc.ok
                   THEN /\ Raise(hc.err, "cat")
                        /\ UNCHANGED <<h, index, received>>
                   ELSE /\ received' = Append(received, hc.c)
                        /\ IF r.ok
                           THEN /\ h' = r
                                /\ index' = index + 1
                                /\ UNCHANGED <<pc, err, raised_in>>
                           ELSE /\ Raise(r.err, "decoder")
                                /\ UNCHANGED <<h, index>>
    /\ UNCHANGED <<channel_mults, in_channels, out_channels, dropout, x, training,
                   level, encoders, decoders, out, discarded>>
    /\ UNCHANGED <<blockVars, mainVars>>

\* line 240: the final nonlinearity and the return
Return ==
    /\ pc = "decode"
    /\ index = Len(decoders)
    /\ out' = Elementwise(h)
    /\ pc' = "done"
    /\ UNCHANGED <<channel_mults, in_channels, out_channels, dropout, x, training,
                   level, encoders, decoders, h, feats, index, err, raised_in,
                   discarded, skips, received>>
    /\ UNCHANGED <<blockVars, mainVars>>

Next ==
    \/ InitEncoders
    \/ EncoderLoop
    \/ EncodersDone
    \/ DecoderLoop
    \/ FinalDecoder
    \/ ForwardStart
    \/ EncoderPass
    \/ PopBottleneck
    \/ DecoderPass
    \/ Return

Spec == Init /\ [][Next]_vars

\* ------------------------------------------------------------------ claims
Depth == Len(channel_mults)

Positive == \A k \in 1..Depth : channel_mults[k] > 0

Divisible == x.h % (2^Depth) = 0 /\ x.w % (2^Depth) = 0

ValidInput == Depth >= 2 /\ Positive /\ Divisible

EncodersBuilt ==
    \/ pc \in {"decoders", "built", "encode", "decode", "done"}
    \/ pc = "raised" /\ raised_in # "__init__"

DecodersBuilt ==
    \/ pc \in {"built", "encode", "decode", "done"}
    \/ pc = "raised" /\ raised_in # "__init__"

Concatenated == {k \in 1..Len(skips) : skips[k] # -1}

\* C1: for every channel_mults of positive integers of length n >= 2 and every
\* input [N, in_channels, H, W] with H and W divisible by 2^n, forward raises
\* nothing and returns a tensor of shape [N, out_channels, H, W].
C1_ForwardKeepsShape ==
    ValidInput =>
        /\ pc # "raised"
        /\ pc = "done" => out = Shape(x.n, out_channels, x.h, x.w)

\* C3: the encoder pass stores n feature maps, exactly one (the last) is
\* discarded before the first decoder stage, the decoder pass never pops from
\* an empty stack, and the remaining n-1 maps are popped once each, leaving
\* the stack empty when forward returns.
C3_StackDiscipline ==
    /\ err # "pop from empty list"
    /\ (pc = "encode" /\ index = Len(encoders)) =>
           /\ Len(feats) = Depth
           /\ \A k \in 1..Depth : feats[k].stage = k - 1
    /\ (pc = "decode" /\ index = 0) =>
           /\ skips = <<>>
           /\ Len(feats) = Depth - 1
           /\ \A k \in 1..Len(feats) : feats[k].stage # Depth - 1
    /\ (pc \in {"decode", "done"} \/ raised_in \in {"cat", "decoder"}) =>
           /\ discarded = 1
           /\ Len(feats) + Cardinality(Concatenated) = Depth - 1
    /\ pc = "done" =>
           /\ feats = <<>>
           /\ Cardinality(Concatenated) = Depth - 1
           /\ {skips[k] : k \in Concatenated} = 0..(Depth - 2)

C3_Witness ==
    /\ pc = "done" /\ Depth >= 3
    /\ feats = <<>> /\ discarded = 1 /\ Cardinality(Concatenated) = Depth - 1

\* C4: there are as many decoder stages as encoder stages (n each), decoder
\* stage 0 concatenates nothing, and decoder stage i >= 1 concatenates the
\* output of encoder stage n-1-i.
C4_MirroredSkips ==
    /\ DecodersBuilt => Len(decoders) = Depth /\ Len(encoders) = Depth
    /\ \A k \in 1..Len(skips) :
           skips[k] = IF k = 1 THEN -1 ELSE Depth - 1 - (k - 1)

C4_Witness ==
    /\ pc = "done" /\ Depth >= 3
    /\ Len(skips) = Depth /\ skips[Depth] = 0 /\ skips[2] = Depth - 2

\* C8: for positive channel_mults, every decoder stage is declared with the
\* channel count of the tensor it receives: the first with
\* channel_mults[-1]*64, every later one (the final transposed convolution
\* included) with twice the previous stage's output channels, which is the
\* previous output plus the channels of the concatenated feature map.
C8_DeclaredChannels ==
    Positive =>
        /\ \A k \in 1..Len(received) : received[k] = decoders[k].in_channels
        /\ ~(raised_in = "decoder" /\ err = "channels")
        /\ \A k \in 1..Len(decoders) :
               decoders[k].in_channels =
                   IF k = 1 THEN channel_mults[Depth] * BaseChannels
                   ELSE 2 * decoders[k - 1].out_channels
        /\ \A k \in 2..Len(received) :
               decoders[k].in_channels =
                   decoders[k - 1].out_channels
                   + encoders[skips[k] + 1].out_channels

C8_Witness ==
    /\ pc = "done" /\ Depth >= 3 /\ Positive
    /\ channel_mults[1] # channel_mults[2]
    /\ Len(received) = Depth
    /\ received[Depth] = 2 * channel_mults[1] * BaseChannels

\* C10: for n >= 2 the encoder is one plain strided convolution followed by
\* n-1 EncoderBlocks, of which exactly the last (level n-1) has norm False.
C10_EncoderNorm ==
    (Depth >= 2 /\ EncodersBuilt) =>
        /\ Len(encoders) = Depth
        /\ encoders[1].kind = "Conv2d"
        /\ \A k \in 2..Depth :
               /\ encoders[k].kind = "EncoderBlock"
               /\ encoders[k].norm = (k # Depth)

C10_Witness ==
    /\ pc = "built" /\ Depth >= 3
    /\ ~encoders[Depth].norm /\ encoders[Depth - 1].norm

WithDropout ==
    {k \in 1..Len(decoders) :
         decoders[k].kind = "DecoderBlock" /\ decoders[k].dropout > 0}

\* the decoder stage at (1-based) position k works at the maximum multiplier
AtMaxMult(k) ==
    /\ decoders[k].kind = "DecoderBlock"
    /\ decoders[k].out_channels = Max(channel_mults) * BaseChannels

\* C9 as stated: a DecoderBlock gets the configured dropout only if it works
\* at max(channel_mults) and is one of the four decoder stages closest to the
\* bottleneck, the boundary condition admits four stages, and the default
\* sequence gets exactly four DecoderBlocks with nonzero dropout.
C9_DropoutFourStages ==
    DecodersBuilt =>
        /\ \A k \in 1..Len(decoders) :
               decoders[k].dropout =
                   IF AtMaxMult(k) /\ k <= 4 THEN dropout ELSE 0
        /\ (channel_mults = DefaultChannelMults /\ dropout > 0) =>
               Cardinality(WithDropout) = 4

\* C9 amended: a DecoderBlock gets the configured dropout exactly when it
\* works at max(channel_mults) and is one of the three decoder stages closest
\* to the bottleneck (level > len - 5 admits the levels len-4 .. len-2), every
\* other stage gets 0, and the default sequence gets exactly three
\* DecoderBlocks with nonzero dropout.
C9_DropoutThreeStages ==
    DecodersBuilt =>
        /\ \A k \in 1..Len(decoders) :
               decoders[k].dropout =
                   IF AtMaxMult(k) /\ k <= 3 THEN dropout ELSE 0
        /\ (channel_mults = DefaultChannelMults /\ dropout > 0) =>
               /\ Cardinality(WithDropout) = 3
               /\ WithDropout = 1..3

C9_Witness ==
    /\ pc = "built" /\ channel_mults = DefaultChannelMults /\ dropout > 0
    /\ AtMaxMult(4) /\ decoders[4].dropout = 0 /\ decoders[3].dropout = dropout

Malformed == Depth < 2 \/ \E k \in 1..Depth : channel_mults[k] <= 0

HasNegative == \E k \in 1..Depth : channel_mults[k] < 0

HasZero == \E k \in 1..Depth : channel_mults[k] = 0

\* C5 as stated: a malformed channel_mults (length < 2 or a non-positive
\* entry) is accepted by the constructor and fails in forward, at the
\* concatenation of the skip connection, with mismatched shapes.
C5_FailsAtConcatenation ==
    (Malformed /\ Divisible) =>
        /\ raised_in # "__init__"
        /\ pc # "done"
        /\ pc = "raised" => (raised_in = "cat" /\ err = "cat")

\* C5 amended: a malformed channel_mults never yields a shape-mismatched
\* concatenation.  Length 0 and a negative entry are rejected by the
\* constructor; length 1 is accepted and forward runs with no concatenation,
\* returning [N, out_channels, H, W] for even H and W; a zero entry is accepted
\* by the constructor and fails at the first forward pass in the encoder
\* convolution, before any concatenation.
C5_MalformedOutcome ==
    /\ Malformed => err # "cat"
    /\ Depth = 0 =>
           /\ pc \in {"start", "raised"}
           /\ pc = "raised" => (raised_in = "__init__" /\ err = "IndexError")
    /\ HasNegative =>
           /\ pc \in {"start", "encoders", "raised"}
           /\ pc = "raised" => raised_in = "__init__"
    /\ (Depth = 1 /\ Positive) =>
           /\ raised_in # "__init__"
           /\ skips \in {<<>>, <<-1>>}
           /\ (x.h % 2 = 0 /\ x.w % 2 = 0) =>
                  /\ pc # "raised"
                  /\ pc = "done" => out = Shape(x.n, out_channels, x.h, x.w)
    /\ (HasZero /\ ~HasNegative) =>
           /\ raised_in # "__init__"
           /\ pc \notin {"decode", "done"}
           /\ pc = "raised" => (raised_in = "encoder" /\ skips = <<>>)

C5_Witness ==
    /\ Depth = 1 /\ pc = "done" /\ skips = <<-1>>
    /\ out = Shape(x.n, out_channels, x.h, x.w)

\* ------------------------------------- EncoderBlock.forward, DecoderBlock.forward
BlockChannels == {DefaultInChannels, BaseChannels}

BlockInputs ==
    {[kind |-> "EncoderBlock", in_channels |-> ci, out_channels |-> co,
      norm |-> nm, dropout |-> 0] :
        ci \in BlockChannels, co \in BlockChannels, nm \in BOOLEAN}
    \cup
    {[kind |-> "DecoderBlock", in_channels |-> ci, out_channels |-> co,
      norm |-> TRUE, dropout |-> d] :
        ci \in BlockChannels, co \in BlockChannels, d \in {0, DefaultDropout}}

InitBlocks ==
    /\ block \in BlockInputs
    /\ \E n \in 1..MaxN, hh \in 1..MaxHW, ww \in 1..MaxHW :
           bx = Shape(n, block.in_channels, hh, ww)
    /\ btraining \in BOOLEAN
    /\ bpc = "conv_block"
    /\ conv_block = NoTensor /\ conv_skip = NoTensor /\ bout = NoTensor
    /\ UnetIdle /\ MainIdle

\* line 86, left operand: self.conv_block(x)
EncoderBlockConvBlock ==
    /\ bpc = "conv_block" /\ block.kind = "EncoderBlock"
    /\ conv_block' = EncoderConvBlock(bx, block.in_channels, block.out_channels,
                                      block.norm, btraining)
    /\ bpc' = IF conv_block'.ok THEN "conv_skip" ELSE "raised"
    /\ UNCHANGED <<block, bx, btraining, conv_skip, bout>>
    /\ UNCHANGED <<unetVars, mainVars>>

\* line 86, right operand: self.conv_skip(x)
EncoderBlockConvSkip ==
    /\ bpc = "conv_skip" /\ block.kind = "EncoderBlock"
    /\ conv_skip' = EncoderConvSkip(bx, block.in_channels, block.out_channels)
    /\ bpc' = IF conv_skip'.ok THEN "add" ELSE "raised"
    /\ UNCHANGED <<block, bx, btraining, conv_block, bout>>
    /\ UNCHANGED <<unetVars, mainVars>>

\* line 86: the sum of the two branches is returned
EncoderBlockReturn ==
    /\ bpc = "add" /\ block.kind = "EncoderBlock"
    /\ bout' = Add(conv_block, conv_skip)
    /\ bpc' = IF bout'.ok THEN "done" ELSE "raised"
    /\ UNCHANGED <<block, bx, btraining, conv_block, conv_skip>>
    /\ UNCHANGED <<unetVars, mainVars>>

\* line 135, left operand: self.conv_block(x)
DecoderBlockConvBlock ==
    /\ bpc = "conv_block" /\ block.kind = "DecoderBlock"
    /\ conv_block' = DecoderConvBlock(bx, block.in_channels, block.out_channels,
                                      block.dropout, btraining)
    /\ bpc' = IF conv_block'.ok THEN "conv_skip" ELSE "raised"
    /\ UNCHANGED <<block, bx, btraining, conv_skip, bout>>
    /\ UNCHANGED <<unetVars, mainVars>>

\* line 135, right operand: self.conv_skip(x)
DecoderBlockConvSkip ==
    /\ bpc = "conv_skip" /\ block.kind = "DecoderBlock"
    /\ conv_skip' = DecoderConvSkip(bx, block.in_channels, block.out_channels)
    /\ bpc' = IF conv_skip'.ok THEN "add" ELSE "raised"
    /\ UNCHANGED <<block, bx, btraining, conv_block, bout>>
    /\ UNCHANGED <<unetVars, mainVars>>

\* line 135: the sum of the two branches is returned
DecoderBlockReturn ==
    /\ bpc = "add" /\ block.kind = "DecoderBlock"
    /\ bout' = Add(conv_block, conv_skip)
    /\ bpc' = IF bout'.ok THEN "done" ELSE "raised"
    /\ UNCHANGED <<block, bx, btraining, conv_block, conv_skip>>
    /\ UNCHANGED <<unetVars, mainVars>>

NextBlocks ==
    \/ EncoderBlockConvBlock
    \/ EncoderBlockConvSkip
    \/ EncoderBlockReturn
    \/ DecoderBlockConvBlock
    \/ DecoderBlockConvSkip
    \/ DecoderBlockReturn

SpecBlocks == InitBlocks /\ [][NextBlocks]_vars

\* C6: for every input [N, in_channels, H, W] with H and W even and positive,
\* both branches of EncoderBlock.forward produce [N, out_channels, H/2, W/2],
\* so the sum is defined and the block halves the spatial dimensions.
C6_EncoderHalves ==
    (block.kind = "EncoderBlock" /\ bx.h % 2 = 0 /\ bx.w % 2 = 0) =>
        LET half == Shape(bx.n, block.out_channels, bx.h \div 2, bx.w \div 2)
        IN  /\ bpc # "raised"
            /\ bpc \in {"conv_skip", "add", "done"} => conv_block = half
            /\ bpc \in {"add", "done"} => conv_skip = half
            /\ bpc = "done" => bout = half

\* C7: for every input [N, in_channels, H, W] with H, W >= 1, both branches of
\* DecoderBlock.forward produce [N, out_channels, 2H, 2W], so the sum is
\* defined and the block doubles the spatial dimensions.
C7_DecoderDoubles ==
    block.kind = "DecoderBlock" =>
        LET double == Shape(bx.n, block.out_channels, 2 * bx.h, 2 * bx.w)
        IN  /\ bpc # "raised"
            /\ bpc \in {"conv_skip", "add", "done"} => conv_block = double
            /\ bpc \in {"add", "done"} => conv_skip = double
            /\ bpc = "done" => bout = double

C7_Witness ==
    /\ block.kind = "DecoderBlock" /\ bpc = "done"
    /\ bx.h = 1 /\ bx.w = 3 /\ bx.n = 1 /\ btraining
    /\ bout = Shape(1, block.out_channels, 2, 6)

\* --------------------------------------------------------------------- main
DefaultL1Lambda == 50
DefaultEpochs == 200

KnownModels == {"pix2pix", "palette", "transgan"}

ModelNames == KnownModels \cup {"foo", "resunet", ""}

InitMain ==
    /\ hparams \in [model : ModelNames, l1_lambda : {1, DefaultL1Lambda},
                    epochs : {1, DefaultEpochs}, batch_size : 1..MaxN]
    /\ mpc = "start"
    /\ seeded = FALSE /\ model = "None" /\ data_module = FALSE
    /\ ema_callback = FALSE /\ trainer = FALSE /\ fitted = FALSE
    /\ merr = "none"
    /\ UnetIdle /\ BlockIdle

\* line 12: pl.seed_everything(42, workers=True)
SeedEverything ==
    /\ mpc = "start"
    /\ seeded' = TRUE
    /\ mpc' = "match"
    /\ UNCHANGED <<hparams, model, data_module, ema_callback, trainer, fitted, merr>>
    /\ UNCHANGED <<unetVars, blockVars>>

\* lines 14-32: model = None, then the match on hparams.model
MatchModel ==
    /\ mpc = "match"
    /\ model' = IF hparams.model = "pix2pix" THEN "Pix2Pix"
                ELSE IF hparams.model = "palette" THEN "Palette"
                ELSE IF hparams.model = "transgan" THEN "TransGAN"
                ELSE "None"
    /\ mpc' = "check"
    /\ UNCHANGED <<hparams, seeded, data_module, ema_callback, trainer, fitted, merr>>
    /\ UNCHANGED <<unetVars, blockVars>>

\* mutant: the None check is missing
CheckModel_NoRaise ==
    /\ mpc = "check"
    /\ mpc' = "data_module"
    /\ UNCHANGED <<hparams, seeded, model, data_module, ema_callback, trainer,
                   fitted, merr>>
    /\ UNCHANGED <<unetVars, blockVars>>

\* lines 34-35: if model is None: raise ValueError
CheckModel ==
    /\ mpc = "check"
    /\ IF model = "None"
       THEN /\ merr' = "ValueError"
            /\ mpc' = "raised"
       ELSE /\ mpc' = "data_module"
            /\ UNCHANGED merr
    /\ UNCHANGED <<hparams, seeded, model, data_module, ema_callback, trainer, fitted>>
    /\ UNCHANGED <<unetVars, blockVars>>

\* lines 37-42: data_module = ImageDataModule(...)
MakeDataModule ==
    /\ mpc = "data_module"
    /\ data_module' = TRUE
    /\ mpc' = "trainer"
    /\ UNCHANGED <<hparams, seeded, model, ema_callback, trainer, fitted, merr>>
    /\ UNCHANGED <<unetVars, blockVars>>

\* lines 44-52: trainer = pl.Trainer(..., callbacks=[EMACallback(0.9999)])
MakeTrainer ==
    /\ mpc = "trainer"
    /\ ema_callback' = TRUE
    /\ trainer' = TRUE
    /\ mpc' = "fit"
    /\ UNCHANGED <<hparams, seeded, model, data_module, fitted, merr>>
    /\ UNCHANGED <<unetVars, blockVars>>

\* line 53: trainer.fit(model, data_module)
Fit ==
    /\ mpc = "fit"
    /\ fitted' = TRUE
    /\ mpc' = "done"
    /\ UNCHANGED <<hparams, seeded, model, data_module, ema_callback, trainer, merr>>
    /\ UNCHANGED <<unetVars, blockVars>>

NextMain ==
    \/ SeedEverything
    \/ MatchModel
    \/ CheckModel
    \/ MakeDataModule
    \/ MakeTrainer
    \/ Fit

SpecMain == InitMain /\ [][NextMain]_vars

\* C2: when main is called with a model name other than pix2pix, palette or
\* transgan it raises ValueError, and no ImageDataModule, Trainer or
\* EMACallback has been constructed and trainer.fit has not been called.
C2_UnknownModelFailsFast ==
    hparams.model \notin KnownModels =>
        /\ ~data_module /\ ~trainer /\ ~ema_callback /\ ~fitted
        /\ mpc \in {"start", "match", "check", "raised"}
        /\ mpc = "check" => model = "None"
        /\ mpc = "raised" => merr = "ValueError"

C2_Witness ==
    /\ hparams.model = "foo" /\ mpc = "raised" /\ merr = "ValueError"
    /\ seeded /\ ~data_module /\ ~trainer /\ ~ema_callback /\ ~fitted

====
